---------------------------- MODULE Spec2Model ----------------------------
(***************************************************************************)
(* The verification fixtures of mcp4eda: small C routines (saturating and  *)
(* overflow-safe addition, max, absolute value, an FIR filter tap, bubble  *)
(* sort, array summation) and the assertion-bearing drivers around them.   *)
(*                                                                         *)
(* Every C file is a standalone program.  A behaviour of this module is a  *)
(* run of one of them: prog names the entry point, pc the position in it.  *)
(* A function without a driver of its own is run on arguments drawn from   *)
(* a bounded set of 32-bit values.                                         *)
(*                                                                         *)
(* A C int is a TLA+ integer in INT_MIN..INT_MAX.  TLC's own integers are  *)
(* 32 bits wide, so everything wider (a long long sum, an unsigned int     *)
(* constant, a product before it is reduced mod 2^32) is carried as a pair *)
(* <<hi, lo>> standing for hi * 2^16 + lo with 0 <= lo < 2^16.             *)
(***************************************************************************)
EXTENDS Integers, Sequences, FiniteSets

VARIABLES
    prog,        \* the entry point this run executes
    pc,          \* the position in it
    a, b,        \* arguments of add_sat, safe_add, max
    x,           \* argument of abs_value, abs_v1, abs_v2
    result,      \* a function's return value (the drivers' local "result")
    result1,     \* check_equivalence / test_equivalence: abs_v1(x)
    result2,     \* check_equivalence / test_equivalence: abs_v2(x)
    arr,         \* the int array of bubble_sort, sum_array and the bounds tests
    size,        \* sum_array's size argument
    i,           \* the summation loops' index (0-based, as in C)
    sum,         \* the summation loops' accumulator
    input,       \* fir_filter's input sample
    coeffs,      \* fir_filter's coefficient array
    delay_line,  \* fir_filter's delay line
    passed,      \* number of assertions of the driver that were reached and held
    failed       \* 0, or the number (in source order) of the assertion that failed

vars == <<prog, pc, a, b, x, result, result1, result2, arr, size, i, sum,
          input, coeffs, delay_line, passed, failed>>

---------------------------------------------------------------------------
(* Bounds of the model. *)

\* Inputs are taken within Near of INT_MIN, of 0 and of INT_MAX.
Near == 2
\* Arrays handed to bubble_sort and sum_array have at most MaxLen elements.
MaxLen == 3

---------------------------------------------------------------------------
(* 32-bit int and the wider types. *)

INT_MAX == 2147483647
INT_MIN == -INT_MAX - 1
TAPS == 4

B == 2^16
HalfB == 2^15

\* (long long)v for an int v: the same value, as a pair.
Wide(v) == <<v \div B, v % B>>

WAdd(p, q) ==
    LET s == p[2] + q[2]
    IN  <<p[1] + q[1] + (s \div B), s % B>>

WSub(p, q) ==
    LET s == p[2] - q[2]
    IN  <<p[1] - q[1] + (s \div B), s % B>>

WLess(p, q) == p[1] < q[1] \/ (p[1] = q[1] /\ p[2] < q[2])

\* Conversion to int: the value modulo 2^32, in INT_MIN..INT_MAX.
ToInt(p) == (((p[1] + HalfB) % B) - HalfB) * B + p[2]

\* Conversion to unsigned int: the value modulo 2^32, in 0..2^32-1.
ToUInt(p) == <<p[1] % B, p[2]>>

\* int arithmetic, two's-complement wrap on overflow.
Add32(v, w) == ToInt(WAdd(Wide(v), Wide(w)))
Sub32(v, w) == ToInt(WSub(Wide(v), Wide(w)))
Neg32(v) == Sub32(0, v)

\* The product of two 16-bit digits u, w in 0..B-1, as a pair.
DigitMul(u, w) ==
    LET t1 == (u \div 256) * w
        t0 == (u % 256) * w
    IN  WAdd(<<t1 \div 256, (t1 % 256) * 256>>, <<t0 \div B, t0 % B>>)

Mul32(v, w) ==
    LET p == Wide(v)
        q == Wide(w)
        cross == (((p[1] * q[2]) % B) + ((p[2] * q[1]) % B)) % B
    IN  ToInt(WAdd(<<cross, 0>>, DigitMul(p[2], q[2])))

\* v >> 16 for an int v: the arithmetic shift the compiler emits.
Shr16(v) == v \div B

---------------------------------------------------------------------------
(* c2rtl-verify-mcp/examples/adder.c *)

\* The constant 0x7FFFFFFF: it fits int.
Hex7FFFFFFF == Wide(INT_MAX)
\* The constant 0x80000000: it does not fit int, so its type is unsigned int.
Hex80000000 == <<HalfB, 0>>
\* -0x80000000: unary minus on an unsigned int, reduced modulo 2^32.
NegHex80000000 == ToUInt(WSub(<<0, 0>>, Hex80000000))

\* Both operands of each comparison are converted to long long, which keeps
\* the unsigned value of -0x80000000; the returned constants are converted
\* to int.
add_sat(p, q) ==
    LET sat == WAdd(Wide(p), Wide(q))
    IN  IF WLess(Hex7FFFFFFF, sat) THEN ToInt(Hex7FFFFFFF)
        ELSE IF WLess(sat, NegHex80000000) THEN ToInt(NegHex80000000)
        ELSE ToInt(sat)

---------------------------------------------------------------------------
(* cbmc-tests/test_overflow.c *)

safe_add_nolow(p, q) ==
    IF p > 0 /\ q > Sub32(INT_MAX, p) THEN INT_MAX
    ELSE Add32(p, q)

safe_add(p, q) ==
    IF p > 0 /\ q > Sub32(INT_MAX, p) THEN INT_MAX
    ELSE IF p < 0 /\ q < Sub32(INT_MIN, p) THEN INT_MIN
    ELSE Add32(p, q)

---------------------------------------------------------------------------
(* cbmc-tests/test_assertion.c *)

max_lt(p, q) == IF p < q THEN p ELSE q

max(p, q) == IF p > q THEN p ELSE q

---------------------------------------------------------------------------
(* cbmc-mcp/test_cbmc.c, cbmc-mcp/examples/equivalence_harness.c and       *)
(* cbmc-tests/test_equivalence.c.  -v wraps at INT_MIN.                    *)

abs_value_nowrap(v) == IF v < 0 THEN (IF v = INT_MIN THEN INT_MAX ELSE -v) ELSE v

abs_value(v) == IF v < 0 THEN Neg32(v) ELSE v

abs_v1(v) == IF v < 0 THEN Neg32(v) ELSE v

abs_v2_swapped(v) == IF v > 0 THEN Neg32(v) ELSE v

abs_v2(v) == IF v < 0 THEN Neg32(v) ELSE v

\* test_equivalence.c holds its own copies of the two functions.
te_abs_v1(v) == IF v < 0 THEN Neg32(v) ELSE v

te_abs_v2(v) == IF v < 0 THEN Neg32(v) ELSE v

---------------------------------------------------------------------------
(* cbmc-mcp/examples/bubble_sort_v1.c.  C's arr[j] is arr[j + 1] here.     *)

Swap(s, j, k) == [s EXCEPT ![j] = s[k], ![k] = s[j]]

\* One step of the inner loop's body at C index j.
CompareSwap(s, j) == IF s[j + 1] > s[j + 2] THEN Swap(s, j + 1, j + 2) ELSE s

RECURSIVE InnerLoopShort(_, _, _, _)
InnerLoopShort(s, n, oi, j) ==
    IF j < n - oi - 2 THEN InnerLoopShort(CompareSwap(s, j), n, oi, j + 1) ELSE s

RECURSIVE InnerLoop(_, _, _, _)
InnerLoop(s, n, oi, j) ==
    IF j < n - oi - 1 THEN InnerLoop(CompareSwap(s, j), n, oi, j + 1) ELSE s

RECURSIVE OuterLoop(_, _, _)
OuterLoop(s, n, oi) ==
    IF oi < n - 1 THEN OuterLoop(InnerLoop(s, n, oi, 0), n, oi + 1) ELSE s

bubble_sort(s, n) == OuterLoop(s, n, 0)

---------------------------------------------------------------------------
(* c2rtl-verify-mcp/examples/fir_filter.c.  C's delay_line[k] is d[k + 1]. *)

RECURSIVE ShiftLoop(_, _)
ShiftLoop(d, k) ==
    IF k > 0 THEN ShiftLoop([d EXCEPT ![k + 1] = d[k]], k - 1) ELSE d

RECURSIVE ShiftLoopUp(_, _)
ShiftLoopUp(d, k) ==
    IF k < TAPS THEN ShiftLoopUp([d EXCEPT ![k + 1] = d[k]], k + 1) ELSE d

RECURSIVE MacLoop(_, _, _, _)
MacLoop(d, c, k, acc) ==
    IF k < TAPS THEN MacLoop(d, c, k + 1, Add32(acc, Mul32(d[k + 1], c[k + 1])))
    ELSE acc

\* The delay line after the call and the value returned.
fir_filter_up(in, c, d) ==
    LET shifted == [ShiftLoopUp(d, 1) EXCEPT ![1] = in]
    IN  [delay_line |-> shifted, ret |-> Shr16(MacLoop(shifted, c, 0, 0))]

fir_filter(in, c, d) ==
    LET shifted == [ShiftLoop(d, TAPS - 1) EXCEPT ![1] = in]
    IN  [delay_line |-> shifted, ret |-> Shr16(MacLoop(shifted, c, 0, 0))]

---------------------------------------------------------------------------
(* The entry points. *)

P_add_sat      == "adder.c:add_sat"
P_safe_add     == "test_overflow.c:safe_add"
P_max          == "test_assertion.c:max"
P_test_max     == "test_assertion.c:main"
P_abs_value    == "test_cbmc.c:abs_value"
P_test_cbmc    == "test_cbmc.c:main"
P_check_equiv  == "equivalence_harness.c:check_equivalence"
P_test_equiv   == "test_equivalence.c:main"
P_bubble_sort  == "bubble_sort_v1.c:bubble_sort"
P_test_sort    == "bubble_sort_v1.c:test_sort"
P_sum_array    == "array_bounds.c:sum_array"
P_ab_safe      == "array_bounds.c:safe_array_access"
P_bounds_bug   == "test_bounds.c:main"
P_tb_safe      == "test_bounds.c:safe_array_access"
P_fir_filter   == "fir_filter.c:fir_filter"

\* The entry points that hold assertions or are drivers; the others are
\* functions run on drawn arguments.
Drivers == {P_test_max, P_test_cbmc, P_check_equiv, P_test_equiv, P_test_sort,
            P_ab_safe, P_bounds_bug, P_tb_safe}

\* The drivers that main calls and that return to it.
CalledFromMain == {P_test_max, P_test_equiv, P_bounds_bug}

---------------------------------------------------------------------------
(* The inputs. *)

Ints == {INT_MIN + k : k \in 0..Near} \cup ((-Near) .. Near)
            \cup {INT_MAX - k : k \in 0..Near}

ElemVals == {INT_MIN, -1, 2, INT_MAX}
Arrays == UNION {[1..k -> ElemVals] : k \in 0..MaxLen}

CoefVals == {65536, -3}
DelayVals == {-1, 40000, INT_MAX}
InputVals == {1, -65537, INT_MIN}

\* What a read past the end of an array may find in memory.
Garbage == {INT_MIN, -1, 0, 7, INT_MAX}

\* int arr[5] = {1, 2, 3, 4, 5}
Arr12345 == <<1, 2, 3, 4, 5>>
\* int arr[] = {5, 2, 8, 1, 9}
Arr52819 == <<5, 2, 8, 1, 9>>

Programs == {P_add_sat, P_safe_add, P_max, P_test_max, P_abs_value,
             P_test_cbmc, P_check_equiv, P_test_equiv, P_bubble_sort,
             P_test_sort, P_sum_array, P_ab_safe, P_bounds_bug, P_tb_safe,
             P_fir_filter}

\* A variable the entry point does not have is 0 or empty.  The locals
\* result, result1, result2 are not yet assigned; i and sum start at 0.
Init ==
    /\ prog \in Programs
    /\ pc = CASE prog \in {P_sum_array, P_ab_safe, P_bounds_bug, P_tb_safe}
                   -> "for"
              [] prog = P_test_max -> "assert"
              [] OTHER -> "call"
    /\ a \in CASE prog \in {P_add_sat, P_safe_add, P_max} -> Ints
               [] prog = P_test_cbmc -> {-5}             \* int a = -5;
               [] OTHER -> {0}
    /\ b \in IF prog \in {P_add_sat, P_safe_add, P_max} THEN Ints ELSE {0}
    \* check_equivalence and test_equivalence:  int x;  never assigned
    /\ x \in IF prog \in {P_abs_value, P_check_equiv, P_test_equiv}
             THEN Ints ELSE {0}
    /\ arr \in CASE prog \in {P_bubble_sort, P_sum_array} -> Arrays
                 [] prog = P_test_sort -> {Arr52819}
                 [] prog \in {P_ab_safe, P_bounds_bug, P_tb_safe} -> {Arr12345}
                 [] OTHER -> {<<>>}
    /\ size = CASE prog = P_sum_array -> Len(arr)
                [] prog = P_ab_safe -> 5                 \* sum_array(arr, 5)
                [] OTHER -> 0
    /\ input \in IF prog = P_fir_filter THEN InputVals ELSE {0}
    /\ coeffs \in IF prog = P_fir_filter THEN [1..TAPS -> CoefVals] ELSE {<<>>}
    /\ delay_line \in IF prog = P_fir_filter THEN [1..TAPS -> DelayVals]
                      ELSE {<<>>}
    /\ result = 0 /\ result1 = 0 /\ result2 = 0
    /\ i = 0 /\ sum = 0
    /\ passed = 0 /\ failed = 0

\* Where control goes when the called function returns.
AfterCall == IF prog \in Drivers THEN "assert" ELSE "done"

---------------------------------------------------------------------------
(* Calls of the pure functions. *)

Call_add_sat ==
    /\ prog = P_add_sat /\ pc = "call"
    /\ result' = add_sat(a, b)
    /\ pc' = "done"
    /\ UNCHANGED <<prog, a, b, x, result1, result2, arr, size, i, sum,
                   input, coeffs, delay_line, passed, failed>>

Call_safe_add ==
    /\ prog = P_safe_add /\ pc = "call"
    /\ result' = safe_add(a, b)
    /\ pc' = "done"
    /\ UNCHANGED <<prog, a, b, x, result1, result2, arr, size, i, sum,
                   input, coeffs, delay_line, passed, failed>>

Call_max ==
    /\ prog = P_max /\ pc = "call"
    /\ result' = max(a, b)
    /\ pc' = "done"
    /\ UNCHANGED <<prog, a, b, x, result1, result2, arr, size, i, sum,
                   input, coeffs, delay_line, passed, failed>>

\* abs_value(x) on a drawn x, or main's  int result = abs_value(a);
Call_abs_value ==
    /\ prog \in {P_abs_value, P_test_cbmc} /\ pc = "call"
    /\ result' = IF prog = P_test_cbmc THEN abs_value(a) ELSE abs_value(x)
    /\ pc' = AfterCall
    /\ UNCHANGED <<prog, a, b, x, result1, result2, arr, size, i, sum,
                   input, coeffs, delay_line, passed, failed>>

\* int result1 = abs_v1(x); int result2 = abs_v2(x);
Call_abs_v1_v2 ==
    /\ prog \in {P_check_equiv, P_test_equiv} /\ pc = "call"
    /\ result1' = IF prog = P_check_equiv THEN abs_v1(x) ELSE te_abs_v1(x)
    /\ result2' = IF prog = P_check_equiv THEN abs_v2(x) ELSE te_abs_v2(x)
    /\ pc' = "assert"
    /\ UNCHANGED <<prog, a, b, x, result, arr, size, i, sum,
                   input, coeffs, delay_line, passed, failed>>

\* bubble_sort(arr, n), n the array's length (test_sort: n = 5).
Call_bubble_sort ==
    /\ prog \in {P_bubble_sort, P_test_sort} /\ pc = "call"
    /\ arr' = bubble_sort(arr, Len(arr))
    /\ pc' = AfterCall
    /\ UNCHANGED <<prog, a, b, x, result, result1, result2, size, i, sum,
                   input, coeffs, delay_line, passed, failed>>

Call_fir_filter ==
    /\ prog = P_fir_filter /\ pc = "call"
    /\ LET r == fir_filter(input, coeffs, delay_line)
       IN  /\ delay_line' = r.delay_line
           /\ result' = r.ret
    /\ pc' = "done"
    /\ UNCHANGED <<prog, a, b, x, result1, result2, arr, size, i, sum,
                   input, coeffs, passed, failed>>

---------------------------------------------------------------------------
(* The summation loops.  A loop is two steps: "for" evaluates the          *)
(* condition, "body" reads arr[i], adds it and increments i.               *)

\* The values a read of s[k] (C index) may yield: the element, or, outside
\* the array, whatever lies in memory there.
Load(s, k) == IF k \in 0..(Len(s) - 1) THEN {s[k + 1]} ELSE Garbage

\* sum += arr[i];  i++
LoopBody ==
    /\ \E v \in Load(arr, i) : sum' = Add32(sum, v)
    /\ i' = i + 1
    /\ pc' = "for"
    /\ UNCHANGED <<prog, a, b, x, result, result1, result2, arr, size,
                   input, coeffs, delay_line, passed, failed>>

\* array_bounds.c: for (int i = 0; i <= size; i++) ... return sum;
sum_array_for ==
    /\ prog \in {P_sum_array, P_ab_safe} /\ pc = "for"
    /\ IF i <= size
       THEN pc' = "body" /\ UNCHANGED result
       ELSE pc' = AfterCall /\ result' = sum
    /\ UNCHANGED <<prog, a, b, x, result1, result2, arr, size, i, sum,
                   input, coeffs, delay_line, passed, failed>>

sum_array_body ==
    /\ prog \in {P_sum_array, P_ab_safe} /\ pc = "body"
    /\ LoopBody

\* test_bounds.c, array_access_bug: for (int i = 0; i <= 5; i++)
array_access_bug_for ==
    /\ prog = P_bounds_bug /\ pc = "for"
    /\ pc' = IF i <= 5 THEN "body" ELSE "assert"
    /\ UNCHANGED <<prog, a, b, x, result, result1, result2, arr, size, i, sum,
                   input, coeffs, delay_line, passed, failed>>

array_access_bug_body ==
    /\ prog = P_bounds_bug /\ pc = "body"
    /\ LoopBody

\* test_bounds.c, safe_array_access: for (int i = 0; i < 5; i++)
safe_array_access_for ==
    /\ prog = P_tb_safe /\ pc = "for"
    /\ pc' = IF i < 5 THEN "body" ELSE "assert"
    /\ UNCHANGED <<prog, a, b, x, result, result1, result2, arr, size, i, sum,
                   input, coeffs, delay_line, passed, failed>>

safe_array_access_body ==
    /\ prog = P_tb_safe /\ pc = "body"
    /\ LoopBody

---------------------------------------------------------------------------
(* The drivers' assertions, in source order. *)

test_cbmc_asserts ==
    <<result = 5, abs_value(-10) = 10, abs_value(10) = 10, abs_value(0) = 0>>

test_max_asserts ==
    <<max(5, 3) = 5, max(2, 7) = 7, max(4, 4) = 4, max(-1, -2) = -2>>

\* for (int i = 0; i < n - 1; i++) assert(arr[i] <= arr[i + 1]);
test_sort_asserts == [k \in 1..(Len(arr) - 1) |-> arr[k] <= arr[k + 1]]

equivalence_asserts == <<result1 = result2>>

safe_array_access_asserts == <<result = 15>>

Asserts ==
    CASE prog = P_test_cbmc -> test_cbmc_asserts
      [] prog = P_test_max -> test_max_asserts
      [] prog = P_test_sort -> test_sort_asserts
      [] prog \in {P_check_equiv, P_test_equiv} -> equivalence_asserts
      [] prog = P_ab_safe -> safe_array_access_asserts
      [] OTHER -> <<>>

\* assert(e): a true e lets the run go on, a false one aborts it.
AssertStep ==
    /\ pc = "assert" /\ passed < Len(Asserts)
    /\ IF Asserts[passed + 1]
       THEN passed' = passed + 1 /\ UNCHANGED <<pc, failed>>
       ELSE failed' = passed + 1 /\ pc' = "abort" /\ UNCHANGED passed
    /\ UNCHANGED <<prog, a, b, x, result, result1, result2, arr, size, i, sum,
                   input, coeffs, delay_line>>

\* The function holding the assertions returns (in test_cbmc.c it is main,
\* and this is its return 0).
DriverReturn ==
    /\ pc = "assert" /\ passed = Len(Asserts)
    /\ pc' = "returned"
    /\ UNCHANGED <<prog, a, b, x, result, result1, result2, arr, size, i, sum,
                   input, coeffs, delay_line, passed, failed>>

\* main, after the call of its driver: return 0;
MainReturn ==
    /\ prog \in CalledFromMain /\ pc = "returned"
    /\ pc' = "exit0"
    /\ UNCHANGED <<prog, a, b, x, result, result1, result2, arr, size, i, sum,
                   input, coeffs, delay_line, passed, failed>>

Next ==
    \/ Call_add_sat
    \/ Call_safe_add
    \/ Call_max
    \/ Call_abs_value
    \/ Call_abs_v1_v2
    \/ Call_bubble_sort
    \/ Call_fir_filter
    \/ sum_array_for
    \/ sum_array_body
    \/ array_access_bug_for
    \/ array_access_bug_body
    \/ safe_array_access_for
    \/ safe_array_access_body
    \/ AssertStep
    \/ DriverReturn
    \/ MainReturn

Spec == Init /\ [][Next]_vars

---------------------------------------------------------------------------
(* Vocabulary of the properties. *)

\* The exact (unbounded) sum of two ints.
ExactSum(v, w) == WAdd(Wide(v), Wide(w))

\* clamp(w, INT_MIN, INT_MAX) of an exact value w.
Clamp(w) ==
    IF WLess(Wide(INT_MAX), w) THEN INT_MAX
    ELSE IF WLess(w, Wide(INT_MIN)) THEN INT_MIN
    ELSE ToInt(w)

IsSorted(s) == \A k \in 1..(Len(s) - 1) : s[k] <= s[k + 1]

Count(s, v) == Cardinality({k \in DOMAIN s : s[k] = v})

IsPermutation(s, t) ==
    /\ Len(s) = Len(t)
    /\ \A k \in DOMAIN s : Count(s, s[k]) = Count(t, s[k])

\* The 32-bit sum of the first n elements of s.
RECURSIVE SumFirst(_, _)
SumFirst(s, n) == IF n = 0 THEN 0 ELSE Add32(SumFirst(s, n - 1), s[n])

\* The 32-bit inner product of d and c over the first n taps.
RECURSIVE Dot32(_, _, _)
Dot32(d, c, n) ==
    IF n = 0 THEN 0 ELSE Add32(Dot32(d, c, n - 1), Mul32(d[n], c[n]))

\* r is the absolute value of v, or the wrapped negation at INT_MIN.
AbsPost(v, r) ==
    IF v = INT_MIN THEN r = INT_MIN
    ELSE r >= 0 /\ (r = v \/ r = -v)

---------------------------------------------------------------------------
(* The claims. *)

\* C1: for all ints a and b, add_sat(a, b) is clamp(a + b, INT_MIN, INT_MAX)
\* with a + b taken in unbounded integers.
C1_AddSatClamps ==
    (prog = P_add_sat /\ pc = "done") => result = Clamp(ExactSum(a, b))

\* C2: safe_add(a, b) is the exact sum when it lies in [INT_MIN, INT_MAX],
\* INT_MAX when the sum is above INT_MAX and INT_MIN when it is below INT_MIN.
C2_SafeAddExactOrSaturated ==
    (prog = P_safe_add /\ pc = "done") =>
        LET s == ExactSum(a, b)
        IN  /\ WLess(Wide(INT_MAX), s) => result = INT_MAX
            /\ WLess(s, Wide(INT_MIN)) => result = INT_MIN
            /\ (~WLess(Wide(INT_MAX), s) /\ ~WLess(s, Wide(INT_MIN)))
                   => Wide(result) = s

C2_Witness ==
    /\ prog = P_safe_add /\ pc = "done"
    /\ a = INT_MIN /\ b = -1 /\ result = INT_MIN

\* C3: bubble_sort(arr, n) leaves arr non-decreasing and a permutation of
\* what it was, for every n >= 0; test_sort's array <<5,2,8,1,9>> becomes
\* <<1,2,5,8,9>> and none of test_sort's assertions fails.
C3_BubbleSortSorts ==
    [][ /\ Call_bubble_sort => (IsSorted(arr') /\ IsPermutation(arr, arr'))
        /\ (prog' = P_test_sort /\ pc' # "call")
               => (arr' = <<1, 2, 5, 8, 9>> /\ failed' = 0 /\ pc' # "abort")
      ]_vars

C3_Witness ==
    /\ prog = P_test_sort /\ pc = "returned"
    /\ passed = 4 /\ arr = <<1, 2, 5, 8, 9>>

\* C4: with size the length of arr, sum_array(arr, size) returns the sum of
\* arr[0..size-1]; sum_array(<<1,2,3,4,5>>, 5) is 15 and the assertion
\* result == 15 of safe_array_access holds.
C4_SumArrayExact ==
    /\ (prog \in {P_sum_array, P_ab_safe} /\ pc \notin {"for", "body"})
           => result = SumFirst(arr, size)
    /\ prog = P_ab_safe => (failed = 0 /\ pc # "abort")

\* C5: every index read by safe_array_access, of array_bounds.c (through
\* sum_array(arr, 5)) and of test_bounds.c, lies in 0..4.
C5_ReadsInBounds ==
    (prog \in {P_ab_safe, P_tb_safe} /\ pc = "body") => i \in 0..4

\* The part of C5 that is about test_bounds.c alone.
TestBoundsSafeReadsInBounds ==
    (prog = P_tb_safe /\ pc = "body") => i \in 0..4

\* array_access_bug reaches a read of arr[5].
ArrayAccessBugReadsArr5 == prog = P_bounds_bug /\ pc = "body" /\ i = 5

\* C6: for x other than INT_MIN, abs_value(x), abs_v1(x) and abs_v2(x) are
\* >= 0 and one of x, -x; at INT_MIN they are INT_MIN.  The four assertions
\* of test_cbmc.c's main hold.
C6_AbsValue ==
    /\ (prog = P_abs_value /\ pc = "done") => AbsPost(x, result)
    /\ (prog \in {P_check_equiv, P_test_equiv} /\ pc # "call")
           => (AbsPost(x, result1) /\ AbsPost(x, result2))
    /\ prog = P_test_cbmc => (failed = 0 /\ pc # "abort")
    /\ (prog = P_test_cbmc /\ pc = "returned") => passed = 4

C6_Witness ==
    /\ prog = P_abs_value /\ pc = "done"
    /\ x = INT_MIN /\ result = INT_MIN

\* main of test_cbmc.c returns 0 with its four assertions passed.
TestCbmcReturns == prog = P_test_cbmc /\ pc = "returned" /\ passed = 4

\* C7: abs_v1(x) and abs_v2(x) are equal for every x, INT_MIN included, so
\* the assertion of check_equivalence and of test_equivalence never fails.
C7_AbsEquivalent ==
    prog \in {P_check_equiv, P_test_equiv} =>
        /\ pc # "call" => result1 = result2
        /\ failed = 0 /\ pc # "abort"
        /\ pc \in {"returned", "exit0"} => passed = 1

C7_Witness ==
    /\ prog = P_check_equiv /\ pc = "returned"
    /\ x = INT_MIN /\ passed = 1

\* test_equivalence.c's main returns 0 after the assertion held.
TestEquivalenceReturns == prog = P_test_equiv /\ pc = "exit0" /\ passed = 1

\* C8: max(a, b) >= a, max(a, b) >= b and max(a, b) is a or b;
\* max(5,3) = 5, max(2,7) = 7, max(4,4) = 4.
C8_MaxIsUpperBoundAndOperand ==
    /\ (prog = P_max /\ pc = "done")
           => (result >= a /\ result >= b /\ result \in {a, b})
    /\ max(5, 3) = 5 /\ max(2, 7) = 7 /\ max(4, 4) = 4

C8_Witness ==
    /\ prog = P_max /\ pc = "done"
    /\ a = b /\ result = a

\* C9: fir_filter stores input at delay_line[0], moves the old
\* delay_line[0..2] to [1..3], leaves coeffs alone and returns the 32-bit
\* inner product of the shifted delay line and coeffs, floor-divided by 2^16.
C9_FirFilterContract ==
    [][ Call_fir_filter =>
          /\ delay_line'[1] = input
          /\ \A k \in 2..TAPS : delay_line'[k] = delay_line[k - 1]
          /\ coeffs' = coeffs
          /\ LET acc == Dot32(<<input>> \o SubSeq(delay_line, 1, TAPS - 1),
                              coeffs, TAPS)
             IN  WSub(Wide(acc), <<result', 0>>)[1] = 0
      ]_vars

C9_Witness ==
    /\ prog = P_fir_filter /\ pc = "done"
    /\ delay_line[1] = input /\ delay_line[2] # delay_line[3]
    /\ result < 0

\* C10: test_max passes its first three assertions in order and fails the
\* fourth, max(-1,-2) == -2, because max returns -1; it never returns and
\* main never reaches return 0.
C10_TestMaxHaltsAtFourth ==
    prog = P_test_max =>
        /\ pc \in {"assert", "abort"}
        /\ passed <= 3
        /\ (pc = "abort") <=> (failed # 0)
        /\ pc = "abort" => (failed = 4 /\ passed = 3)
        /\ max(-1, -2) = -1

C10_Witness ==
    /\ prog = P_test_max /\ pc = "abort"
    /\ failed = 4 /\ passed = 3

====
